---- MODULE Spec2Model ----
(***************************************************************************)
(* Model of the Istanbul neighbourhood recommendation agent:               *)
(*   src/main.py            NeighborhoodAgent (CLI agent)                   *)
(*   src/main_v4.py         NeighborhoodAgent (agent used by the HTTP API)  *)
(*   src/api_endpoint_v2.py Flask handlers                                  *)
(*   src/utils/vector_db_creation.py  index build job                       *)
(*   src/utils/groq_llm_init.py       language-model client                 *)
(*                                                                         *)
(* Numbers on the closed [0,1] scale (indices, distances, similarities)    *)
(* are carried in hundredths.  Python None and pandas NaN are both Null.   *)
(***************************************************************************)
EXTENDS Integers, Sequences, FiniteSets, TLC

VARIABLES
    agent,            \* which agent class the process runs, whether it was constructed,
                      \* and whether groq_llm was (llm)
    df,               \* NeighborhoodAgent.df: the catalog, in row order
    collection,       \* the Chroma collection: entries [id, metadata]
    op,               \* which handler produced the request-local values below
    preferences,      \* the preference record of the request
    n_results,        \* requested number of results
    response,         \* what collection.query did: [raises, items]
    filtered_df,      \* candidate rows returned by filter_by_constraints
    filters_applied,  \* trace returned by filter_by_constraints
    recommendations,  \* list returned by search_with_constraints
    path,             \* branch search_with_constraints returned through
    queryCalls,       \* number of collection.query calls of the request
    fallbackCalls,    \* number of nlargest (fallback ranker) calls of the request
    match_reasons,    \* explain_match(rec, preferences) of each explained result
    llm_response,     \* what self.llm._call did for the request
    reasoning,        \* rationale returned by extract_preferences_with_llm
    http,             \* [status, body] answered by the Flask handler
    threads           \* the locals of each request thread of a threaded server

vars == <<agent, df, collection, op, preferences, n_results, response,
          filtered_df, filters_applied, recommendations, path, queryCalls,
          fallbackCalls, match_reasons, llm_response, reasoning, http, threads>>

-----------------------------------------------------------------------------
(* Values *)

\* Python None / pandas NaN.  Every modelled number is >= 0.
Null == 0 - 1

\* A non-empty string where a number is expected ("two", "15k").
WrongType == 0 - 2

\* Python truthiness of an optional value: None and 0 are falsy, a non-empty
\* string is truthy.
Truthy(v) == v # Null /\ v # 0

\* x.get(key) or default
OrDefault(v, d) == IF Truthy(v) THEN v ELSE d

\* variant: a missing value passing the "<=" mask
LeMissingPasses(x, bound) == x <= bound

\* pandas comparison column <= bound, column >= bound: NaN compares False.
Le(x, bound) == x # Null /\ x <= bound
Ge(x, bound) == x # Null /\ x >= bound

\* Series.fillna(0)
FillNa0(x) == IF x = Null THEN 0 ELSE x

\* apartment_size = preferences.get('apartment_size_sqm') or 80
DefaultApartmentSize == 80

\* n_results = min(50, len(self.df))
OversampleCap == 50

\* 'similarity': 0.5 of the fallback recommendations, in hundredths
FallbackSimilarity == 50

Min(a, b) == IF a <= b THEN a ELSE b

-----------------------------------------------------------------------------
(* Source tables (the CSV file read by pd.read_csv) *)

\* one CSV row: district, name and the numeric columns in the order rent,
\* green index, welfare index, population, restaurants, schools, parks, cafes,
\* bus, train, transit stations, casualties, severely, heavily and moderately
\* damaged buildings, people needing temporary shelter
Row(ilce, mahalle, n) ==
    [Ilce |-> ilce, Mahalle |-> mahalle, Avg_Rent_Per_SqM |-> n[1],
     Green_Index |-> n[2], Society_Welfare_Index |-> n[3], Nufus |-> n[4],
     restaurant |-> n[5], school |-> n[6], park |-> n[7], cafe |-> n[8],
     bus_station |-> n[9], train_station |-> n[10], transit_station |-> n[11],
     can_kaybi_sayisi |-> n[12],
     cok_agir_hasarli_bina_sayisi |-> n[13],
     agir_hasarli_bina_sayisi |-> n[14],
     orta_hasarli_bina_sayisi |-> n[15],
     gecici_barinma |-> n[16]]

\* Two districts sharing a neighbourhood name, as in the Istanbul data.
SourceA ==
    << Row("Kadikoy", "Moda", <<300, 80, 90, 20000, 5, 3, 2, 4, 2, 1, Null, 0, 1, 2, 7, 40>>),
       Row("Kadikoy", "Cumhuriyet", <<600, 40, 50, 45000, 9, 1, 0, 7, 4, 0, 1, 12, 6, 9, 30, 400>>),
       Row("Uskudar", "Cumhuriyet", <<400, 60, 70, 30000, 2, 2, 3, 1, 1, Null, Null, 4, 0, 3, 4, 90>>) >>

\* A table with a sentinel row, missing values and equal welfare indices.
SourceB ==
    << Row("Besiktas", "Bebek", <<500, 70, 70, 15000, 6, 2, 1, 5, 0, 0, 0, Null, Null, Null, Null, Null>>),
       Row("Sariyer", "Unknown", <<200, 90, 95, Null, 0, 0, 4, 0, Null, Null, Null, 0, 0, 0, 0, 0>>),
       Row("Sariyer", "Tarabya", <<Null, 85, 70, 9000, 1, Null, 2, 1, 3, Null, 2, 7, Null, 1, 9, 20>>) >>

\* A table listing one neighbourhood twice (two survey rows of one place).
SourceC ==
    << Row("Fatih", "Balat", <<350, 30, 60, 12000, 3, 2, 1, 2, 1, 0, 0, 3, 1, 1, 6, 60>>),
       Row("Fatih", "Balat", <<450, 30, 40, 12000, 3, 2, 1, 2, 1, 0, 0, 8, 2, 4, 12, 150>>) >>

\* A table with more neighbourhoods than the three results a request asks for.
SourceD ==
    << Row("Beyoglu", "Cihangir", <<550, 35, 75, 14000, 9, 2, 1, 8, 3, 0, 1, 2, 1, 2, 5, 70>>),
       Row("Beyoglu", "Galata", <<650, 20, 65, 11000, 8, 1, 0, 9, 2, 1, 1, 6, 3, 4, 11, 120>>),
       Row("Sisli", "Nisantasi", <<700, 45, 85, 16000, 7, 3, 2, 6, 2, 1, 0, 1, 0, 1, 3, 30>>),
       Row("Sisli", "Bomonti", <<450, 50, 80, 18000, 5, 2, 2, 4, 1, 0, 0, 3, 1, 1, 6, 80>>) >>

Sources == {SourceA, SourceB, SourceC, SourceD}

-----------------------------------------------------------------------------
(* NeighborhoodAgent.__init__ : catalog load *)

\* variant: the three columns added without fillna(0), NaN propagating
TotalStationsNoFill(row) ==
    IF Null \in {row.bus_station, row.train_station, row.transit_station} THEN Null
    ELSE row.bus_station + row.train_station + row.transit_station

\* self.df['total_stations'] = bus.fillna(0) + train.fillna(0) + transit.fillna(0)
TotalStations(row) ==
    FillNa0(row.bus_station) + FillNa0(row.train_station) + FillNa0(row.transit_station)

\* self.df['Mahalle_ID'] = self.df['İlçe'] + '_' + self.df['Mahalle'], spaces
\* replaced by '_' (the names of the source tables here contain no space)
MahalleId(row) == row.Ilce \o "_" \o row.Mahalle

\* variant: the table loaded without the self.df['Mahalle'] != 'Unknown' mask
LoadCatalogKeepsUnknown(source) ==
    [i \in 1..Len(source) |->
        source[i] @@ ("total_stations" :> TotalStations(source[i]))
                  @@ ("Mahalle_ID" :> MahalleId(source[i]))]

\* main.py __init__: drop 'Unknown', add total_stations and Mahalle_ID
LoadCatalog(source) ==
    LET kept == SelectSeq(source, LAMBDA r : r.Mahalle # "Unknown")
    IN  [i \in 1..Len(kept) |->
            kept[i] @@ ("total_stations" :> TotalStations(kept[i]))
                    @@ ("Mahalle_ID" :> MahalleId(kept[i]))]

-----------------------------------------------------------------------------
(* IstanbulNeighborhoodVectorDB : index build job *)

\* numeric_fields of create_metadata: metadata key -> CSV column
NumericFields ==
    { <<"avg_rent_per_sqm", "Avg_Rent_Per_SqM">>,
      <<"green_index", "Green_Index">>,
      <<"society_welfare_index", "Society_Welfare_Index">>,
      <<"nufus", "Nufus">>,
      <<"restaurant", "restaurant">>,
      <<"school", "school">>,
      <<"park", "park">>,
      <<"cafe", "cafe">> }

\* create_metadata: mahalle and ilce always, a numeric key only when not null
create_metadata(row) ==
    LET present == {f \in NumericFields : row[f[2]] # Null}
        column(k) == (CHOOSE f \in present : f[1] = k)[2]
    IN  [k \in {"mahalle", "ilce"} \cup {f[1] : f \in present} |->
            IF k = "mahalle" THEN row.Mahalle
            ELSE IF k = "ilce" THEN row.Ilce
            ELSE row[column(k)]]

\* id_counter[base_id] when row i is reached: earlier rows with the same base id
EarlierSame(source, i) ==
    Cardinality({j \in 1..(i - 1) : MahalleId(source[j]) = MahalleId(source[i])})

\* create_vector_db: one entry per source row ('Unknown' rows included);
\* a repeated base id gets the suffix _<count>
create_vector_db(source) ==
    [i \in 1..Len(source) |->
        [id |-> IF EarlierSame(source, i) = 0 THEN MahalleId(source[i])
                ELSE MahalleId(source[i]) \o "_" \o ToString(EarlierSame(source, i)),
         metadata |-> create_metadata(source[i])]]

\* meta.get(key, default)
MetaGet(meta, key, default) == IF key \in DOMAIN meta THEN meta[key] ELSE default

-----------------------------------------------------------------------------
(* Preference records *)

\* keys of the preference dict read by main.py, and the two further
\* earthquake maxima the extraction prompt asks the language model for
PrefFields ==
    {"monthly_budget", "apartment_size_sqm", "min_parks", "min_schools",
     "min_restaurants", "min_cafes", "min_green_index", "max_population",
     "min_total_stations", "max_casualties", "max_severely_damaged",
     "max_heavily_damaged", "earthquake_safe", "preferences_text",
     "max_moderately_damaged", "max_temporary_shelter_needed"}

\* _get_empty_preferences(); an absent key reads as None through dict.get
EmptyPreferences == [f \in PrefFields |-> Null]

\* largest number of non-null fields in an enumerated preference record
MaxActive == 2

\* non-null values tried for each field (earthquake_safe: 1 = true;
\* preferences_text: 1 = some non-empty summary)
PrefValues(f) ==
    CASE f = "monthly_budget"       -> {0, 32000}
      [] f = "apartment_size_sqm"   -> {100}
      [] f = "min_parks"            -> {0, 1}
      [] f = "min_schools"          -> {2, WrongType}
      [] f = "min_restaurants"      -> {5}
      [] f = "min_cafes"            -> {4}
      [] f = "min_green_index"      -> {60}
      [] f = "max_population"       -> {30000}
      [] f = "min_total_stations"   -> {3}
      [] f = "max_casualties"       -> {0, 5}
      [] f = "max_severely_damaged" -> {1}
      [] f = "max_heavily_damaged"  -> {2, WrongType}
      [] f = "earthquake_safe"      -> {1}
      [] f = "preferences_text"     -> {1}
      [] f = "max_moderately_damaged"       -> {5}
      [] f = "max_temporary_shelter_needed" -> {50}

AllPrefValues == UNION {PrefValues(f) : f \in PrefFields}

PreferenceRecords ==
    UNION { { [f \in PrefFields |-> IF f \in S THEN v[f] ELSE Null] :
                v \in {w \in [S -> AllPrefValues] : \A f \in S : w[f] \in PrefValues(f)} } :
            S \in {T \in SUBSET PrefFields : Cardinality(T) <= MaxActive} }

-----------------------------------------------------------------------------
(* NeighborhoodAgent.filter_by_constraints (main.py) *)

\* the if-chain of filter_by_constraints, in source order
FilterSteps ==
    << "monthly_budget", "min_parks", "min_schools", "min_restaurants", "min_cafes",
       "min_green_index", "max_population", "min_total_stations", "max_casualties",
       "max_severely_damaged", "max_heavily_damaged" >>

\* variant: the budget block entered without its "if monthly_budget" test
StepAppliesBudgetUnguarded(prefs, f) ==
    CASE f = "monthly_budget" -> TRUE
      [] f = "max_casualties" ->
            (Truthy(prefs["earthquake_safe"]) \/ prefs["max_casualties"] # Null)
            /\ prefs["max_casualties"] # Null
      [] f \in {"max_severely_damaged", "max_heavily_damaged"} -> prefs[f] # Null
      [] OTHER -> Truthy(prefs[f])

\* variant: the casualties block entered on earthquake_safe alone, without the
\* inner "max_casualties is not None" test
StepAppliesOnSafeFlag(prefs, f) ==
    CASE f = "max_casualties" ->
            Truthy(prefs["earthquake_safe"]) \/ prefs["max_casualties"] # Null
      [] f \in {"max_severely_damaged", "max_heavily_damaged"} -> prefs[f] # Null
      [] OTHER -> Truthy(prefs[f])

\* the condition of each if: truthiness for the first eight, "is not None" for
\* the earthquake maxima (max_casualties nested under earthquake_safe-or-set)
StepApplies(prefs, f) ==
    CASE f = "max_casualties" ->
            (Truthy(prefs["earthquake_safe"]) \/ prefs["max_casualties"] # Null)
            /\ prefs["max_casualties"] # Null
      [] f \in {"max_severely_damaged", "max_heavily_damaged"} -> prefs[f] # Null
      [] OTHER -> Truthy(prefs[f])

\* estimated_rent = Avg_Rent_Per_SqM * apartment_size (NaN stays NaN)
EstimatedRent(rate, prefs) ==
    IF rate = Null THEN Null
    ELSE rate * OrDefault(prefs["apartment_size_sqm"], DefaultApartmentSize)

\* the boolean mask of each step, for one row
StepPasses(prefs, f, row) ==
    CASE f = "monthly_budget" ->
            Le(EstimatedRent(row.Avg_Rent_Per_SqM, prefs), prefs[f])
      [] f = "min_parks"            -> Ge(row.park, prefs[f])
      [] f = "min_schools"          -> Ge(row.school, prefs[f])
      [] f = "min_restaurants"      -> Ge(row.restaurant, prefs[f])
      [] f = "min_cafes"            -> Ge(row.cafe, prefs[f])
      [] f = "min_green_index"      -> Ge(row.Green_Index, prefs[f])
      [] f = "max_population"       -> Le(row.Nufus, prefs[f])
      [] f = "min_total_stations"   -> Ge(row.total_stations, prefs[f])
      [] f = "max_casualties"       -> Le(row.can_kaybi_sayisi, prefs[f])
      [] f = "max_severely_damaged" -> Le(row.cok_agir_hasarli_bina_sayisi, prefs[f])
      [] f = "max_heavily_damaged"  -> Le(row.agir_hasarli_bina_sayisi, prefs[f])

\* the f-string appended to filters_applied: the filter's label and its bound
StepDescription(prefs, f) == [filter |-> f, bound |-> prefs[f]]

\* pandas raises TypeError when a numeric column is compared with a string
ComparisonRaises(prefs, f) == prefs[f] = WrongType

\* the locals of filter_by_constraints before the first if-block
FilterStart(catalog) == [rows |-> catalog, trace |-> <<>>, raised |-> FALSE]

\* variant: the mask applied to self.df instead of the working filtered_df
ApplyStepOnCatalog(catalog, state, prefs, f) ==
    IF ~StepApplies(prefs, f) THEN state
    ELSE IF ComparisonRaises(prefs, f) THEN [state EXCEPT !.raised = TRUE]
    ELSE [rows   |-> SelectSeq(catalog, LAMBDA r : StepPasses(prefs, f, r)),
          trace  |-> Append(state.trace, StepDescription(prefs, f)),
          raised |-> FALSE]

\* one if-block: filtered_df = filtered_df[mask]; filters_applied.append(...);
\* the comparison building the mask raises for a threshold of the wrong type
ApplyStep(catalog, state, prefs, f) ==
    IF ~StepApplies(prefs, f) THEN state
    ELSE IF ComparisonRaises(prefs, f) THEN [state EXCEPT !.raised = TRUE]
    ELSE [rows   |-> SelectSeq(state.rows, LAMBDA r : StepPasses(prefs, f, r)),
          trace  |-> Append(state.trace, StepDescription(prefs, f)),
          raised |-> FALSE]

\* the chain of if-blocks run over the given sequence of steps; an exception
\* ends the chain
RECURSIVE RunSteps(_, _, _, _)
RunSteps(catalog, state, prefs, steps) ==
    IF steps = <<>> \/ state.raised THEN state
    ELSE RunSteps(catalog, ApplyStep(catalog, state, prefs, Head(steps)), prefs, Tail(steps))

\* filter_by_constraints: (filtered_df, filters_applied) as [rows, trace], or
\* raised when a comparison raised
filter_by_constraints(catalog, prefs) ==
    RunSteps(catalog, FilterStart(catalog), prefs, FilterSteps)

-----------------------------------------------------------------------------
(* The vector index as seen by one request: collection.query *)

\* distance of the item at rank i: ascending with the rank, in hundredths
\* (Chroma distances are not capped at 1)
DistanceProfiles == {[base |-> 20, step |-> 45]}

DistanceAt(profile, i) == profile.base + profile.step * (i - 1)

\* a metadata dict without the keys the walk reads (malformed response)
MalformedMetadata == [k \in {} |-> Null]

\* n_results=min(50, len(self.df)), capped by the size of the collection
OversampleSize(catalog, coll) == Min(Min(OversampleCap, Len(catalog)), Len(coll))

\* the ranked lists a successful query can return: any ranking of any
\* OversampleSize distinct entries of the collection
RankedLists(catalog, coll) ==
    LET k == OversampleSize(catalog, coll)
        rankings == {r \in [1..k -> 1..Len(coll)] :
                        \A i, j \in 1..k : i # j => r[i] # r[j]}
    IN  { [i \in 1..k |-> [id       |-> coll[r[i]].id,
                           metadata |-> coll[r[i]].metadata,
                           distance |-> DistanceAt(d, i)]] :
            r \in rankings, d \in DistanceProfiles }

\* the same list with the metadata of the item at rank p malformed
Corrupt(items, p) ==
    [i \in 1..Len(items) |->
        IF i = p THEN [items[i] EXCEPT !.metadata = MalformedMetadata] ELSE items[i]]

\* every outcome of collection.query: it raises, it returns a ranked list, or
\* it returns a ranked list with one malformed item
QueryOutcomes(catalog, coll) ==
    { [raises |-> TRUE, items |-> <<>>] }
    \cup { [raises |-> FALSE, items |-> l] : l \in RankedLists(catalog, coll) }
    \cup { [raises |-> FALSE, items |-> Corrupt(l, p)] :
             l \in RankedLists(catalog, coll),
             p \in 1..OversampleSize(catalog, coll) }

-----------------------------------------------------------------------------
(* NeighborhoodAgent.search_with_constraints *)

\* the membership test of the post-filter loop
KeepsItem(metadata, filtered_mahalles, filtered_ilces) ==
    metadata["mahalle"] \in filtered_mahalles /\ metadata["ilce"] \in filtered_ilces

\* the break of the post-filter loop, tested after each append
QuotaReached(kept, n) == Len(kept) >= n

\* the post-filter loop over the oversampled list; reading a malformed item
\* raises (KeyError) at the point the loop reaches it
RECURSIVE Walk(_, _, _, _, _)
Walk(items, kept, filtered_mahalles, filtered_ilces, n) ==
    IF items = <<>> THEN [kept |-> kept, raised |-> FALSE]
    ELSE IF "mahalle" \notin DOMAIN Head(items).metadata
         THEN [kept |-> kept, raised |-> TRUE]
    ELSE IF KeepsItem(Head(items).metadata, filtered_mahalles, filtered_ilces)
         THEN IF QuotaReached(Append(kept, Head(items)), n)
              THEN [kept |-> Append(kept, Head(items)), raised |-> FALSE]
              ELSE Walk(Tail(items), Append(kept, Head(items)),
                        filtered_mahalles, filtered_ilces, n)
    ELSE Walk(Tail(items), kept, filtered_mahalles, filtered_ilces, n)

\* rec['monthly_rent'], rec['budget_remaining'], added only for a truthy budget
BudgetFields(rate, prefs) ==
    IF Truthy(prefs["monthly_budget"])
    THEN [monthly_rent     |-> EstimatedRent(rate, prefs),
          budget_remaining |-> IF rate = Null THEN Null
                               ELSE prefs["monthly_budget"] - EstimatedRent(rate, prefs)]
    ELSE [k \in {} |-> Null]

\* the rec built for one kept item: similarity = 1 - distance
SemanticRec(item, prefs) ==
    [mahalle    |-> item.metadata["mahalle"],
     ilce       |-> item.metadata["ilce"],
     similarity |-> 100 - item.distance,
     metadata   |-> item.metadata]
    @@ BudgetFields(MetaGet(item.metadata, "avg_rent_per_sqm", 0), prefs)

\* variant: equal values taken from the end of the table (keep='last')
nlargestKeepLast(rows, n) ==
    LET before(i, j) ==
            \/ rows[i].Society_Welfare_Index > rows[j].Society_Welfare_Index
            \/ rows[i].Society_Welfare_Index = rows[j].Society_Welfare_Index /\ i > j
        rank(i) == 1 + Cardinality({j \in 1..Len(rows) : before(j, i)})
        count == IF n <= 0 THEN 0 ELSE Min(n, Len(rows))
    IN  [k \in 1..count |-> rows[CHOOSE i \in 1..Len(rows) : rank(i) = k]]

\* DataFrame.nlargest(n, 'Society_Welfare_Index'): descending, NaN last,
\* equal values in row order (keep='first'), empty for n <= 0
nlargest(rows, n) ==
    LET before(i, j) ==
            \/ rows[i].Society_Welfare_Index > rows[j].Society_Welfare_Index
            \/ rows[i].Society_Welfare_Index = rows[j].Society_Welfare_Index /\ i < j
        rank(i) == 1 + Cardinality({j \in 1..Len(rows) : before(j, i)})
        count == IF n <= 0 THEN 0 ELSE Min(n, Len(rows))
    IN  [k \in 1..count |-> rows[CHOOSE i \in 1..Len(rows) : rank(i) = k]]

\* metadata keys copied from the row by _dataframe_to_recommendations
FallbackMetaKeys(version) ==
    {"mahalle", "ilce", "green_index", "society_welfare_index", "avg_rent_per_sqm",
     "restaurant", "school", "park", "cafe", "nufus"}
    \cup (IF version = "main"
          THEN {"bus_station", "train_station", "transit_station", "total_stations"}
          ELSE {})

FallbackMetaColumn(k) ==
    CASE k = "mahalle"               -> "Mahalle"
      [] k = "ilce"                  -> "Ilce"
      [] k = "green_index"           -> "Green_Index"
      [] k = "society_welfare_index" -> "Society_Welfare_Index"
      [] k = "avg_rent_per_sqm"      -> "Avg_Rent_Per_SqM"
      [] k = "nufus"                 -> "Nufus"
      [] OTHER                       -> k

\* one rec of _dataframe_to_recommendations
FallbackRec(row, prefs, version) ==
    [mahalle    |-> row.Mahalle,
     ilce       |-> row.Ilce,
     similarity |-> FallbackSimilarity,
     metadata   |-> [k \in FallbackMetaKeys(version) |-> row[FallbackMetaColumn(k)]]]
    @@ BudgetFields(row.Avg_Rent_Per_SqM, prefs)

\* _dataframe_to_recommendations
dataframe_to_recommendations(rows, prefs, version) ==
    [i \in 1..Len(rows) |-> FallbackRec(rows[i], prefs, version)]

\* the except branch: nlargest, then _dataframe_to_recommendations
FallbackRanking(rows, prefs, n, version) ==
    dataframe_to_recommendations(nlargest(rows, n), prefs, version)

\* variant: no early return for an empty candidate set; the index is queried
\* and the walk keeps nothing
EmptyOutcomeAfterQuery ==
    [recommendations |-> <<>>, path |-> "semantic", queryCalls |-> 1, fallbackCalls |-> 0]

\* what the handler does for an empty candidate set: return [] at once
EmptyOutcome ==
    [recommendations |-> <<>>, path |-> "empty", queryCalls |-> 0, fallbackCalls |-> 0]

\* variant: the except branch keeps what the walk had collected and tops it up
ExceptOutcomeKeepsPartial(rows, kept, prefs, n, version) ==
    [recommendations |-> [i \in 1..Len(kept) |-> SemanticRec(kept[i], prefs)]
                         \o FallbackRanking(rows, prefs, n, version),
     path |-> "fallback", queryCalls |-> 1, fallbackCalls |-> 1]

\* what the except branch returns: the walk's partial list is dropped
ExceptOutcome(rows, kept, prefs, n, version) ==
    [recommendations |-> FallbackRanking(rows, prefs, n, version),
     path |-> "fallback", queryCalls |-> 1, fallbackCalls |-> 1]

\* what the try branch returns when nothing raised: the kept items, as recs
SemanticOutcome(rows, kept, prefs, n, version) ==
    [recommendations |-> [i \in 1..Len(kept) |-> SemanticRec(kept[i], prefs)],
     path |-> "semantic", queryCalls |-> 1, fallbackCalls |-> 0]

\* search_with_constraints after the filter call: empty check, one query,
\* post-filter walk, parse; any exception inside the try goes to the fallback
SearchFiltered(rows, prefs, n, resp, version) ==
    IF Len(rows) = 0 THEN EmptyOutcome
    ELSE IF resp.raises THEN ExceptOutcome(rows, <<>>, prefs, n, version)
    ELSE LET w == Walk(resp.items, <<>>,
                       {rows[i].Mahalle : i \in 1..Len(rows)},
                       {rows[i].Ilce : i \in 1..Len(rows)}, n)
         IN  IF w.raised THEN ExceptOutcome(rows, w.kept, prefs, n, version)
             ELSE SemanticOutcome(rows, w.kept, prefs, n, version)

\* the filter call of search_with_constraints is outside its try: an
\* exception of filter_by_constraints leaves the handler
RaisedOutcome ==
    [recommendations |-> <<>>, path |-> "raised", queryCalls |-> 0, fallbackCalls |-> 0]

\* main.py search_with_constraints
search_with_constraints(catalog, prefs, n, resp) ==
    LET f == filter_by_constraints(catalog, prefs)
    IN  IF f.raised THEN RaisedOutcome
        ELSE SearchFiltered(f.rows, prefs, n, resp, "main")

\* rec.get('budget_remaining')
RecGet(rec, key) == IF key \in DOMAIN rec THEN rec[key] ELSE Null

\* the budget block of explain_match: two tiers on a truthy budget_remaining
BudgetReasons(rec) ==
    LET remaining == RecGet(rec, "budget_remaining")
    IN  IF Truthy(remaining) /\ remaining > 5000
        THEN << [reason |-> "Well under budget", value |-> remaining] >>
        ELSE IF Truthy(remaining) /\ remaining > 0
        THEN << [reason |-> "Within budget", value |-> remaining] >>
        ELSE <<>>

\* variant: the comparison made without the "preferences.get(pref) and" test
ThresholdReasonUnguarded(meta, prefs, pref, key, text) ==
    IF MetaGet(meta, key, 0) >= prefs[pref]
    THEN << [reason |-> text, value |-> MetaGet(meta, key, 0)] >>
    ELSE <<>>

\* if preferences.get(pref) and meta.get(key, 0) >= preferences[pref]: the
\* reason quotes meta[key]
ThresholdReason(meta, prefs, pref, key, text) ==
    IF Truthy(prefs[pref]) /\ Ge(MetaGet(meta, key, 0), prefs[pref])
    THEN << [reason |-> text, value |-> MetaGet(meta, key, 0)] >>
    ELSE <<>>

\* the earthquake block: casualties = meta.get('can_kaybi_sayisi', 0), three tiers
EarthquakeReasons(meta, prefs) ==
    LET casualties == MetaGet(meta, "can_kaybi_sayisi", 0)
    IN  IF ~(Truthy(prefs["earthquake_safe"]) \/ prefs["max_casualties"] # Null)
        THEN <<>>
        ELSE IF casualties = 0
        THEN << [reason |-> "Excellent earthquake safety", value |-> 0] >>
        ELSE IF Le(casualties, 5)
        THEN << [reason |-> "Good earthquake safety", value |-> casualties] >>
        ELSE IF Le(casualties, 10)
        THEN << [reason |-> "Moderate earthquake safety", value |-> casualties] >>
        ELSE <<>>

\* main.py explain_match: budget, green space, schools, parks, transport,
\* earthquake safety, in this order
explain_match(rec, prefs) ==
    BudgetReasons(rec)
    \o ThresholdReason(rec.metadata, prefs, "min_green_index", "green_index",
                       "Meets green space requirement")
    \o ThresholdReason(rec.metadata, prefs, "min_schools", "school", "Has schools")
    \o ThresholdReason(rec.metadata, prefs, "min_parks", "park", "Has parks")
    \o ThresholdReason(rec.metadata, prefs, "min_total_stations", "total_stations",
                       "Good public transport")
    \o EarthquakeReasons(rec.metadata, prefs)

-----------------------------------------------------------------------------
(* main_v4.py: the agent behind the HTTP API *)

\* main_v4.py __init__: drop 'Unknown', add Mahalle_ID (no total_stations)
LoadCatalogV4(source) ==
    LET kept == SelectSeq(source, LAMBDA r : r.Mahalle # "Unknown")
    IN  [i \in 1..Len(kept) |-> kept[i] @@ ("Mahalle_ID" :> MahalleId(kept[i]))]

\* variant: the if-chain of main_v4.py without its population block
FilterStepsV4NoPopulation ==
    << "monthly_budget", "min_parks", "min_schools", "min_restaurants", "min_cafes",
       "min_green_index" >>

\* the if-chain of main_v4.py filter_by_constraints
FilterStepsV4 ==
    << "monthly_budget", "min_parks", "min_schools", "min_restaurants", "min_cafes",
       "min_green_index", "max_population" >>

filter_by_constraints_v4(catalog, prefs) ==
    RunSteps(catalog, FilterStart(catalog), prefs, FilterStepsV4)

search_with_constraints_v4(catalog, prefs, n, resp) ==
    LET f == filter_by_constraints_v4(catalog, prefs)
    IN  IF f.raised THEN RaisedOutcome
        ELSE SearchFiltered(f.rows, prefs, n, resp, "v4")

\* main_v4.py explain_match: budget, green space, schools, parks
explain_match_v4(rec, prefs) ==
    BudgetReasons(rec)
    \o ThresholdReason(rec.metadata, prefs, "min_green_index", "green_index",
                       "Meets green space requirement")
    \o ThresholdReason(rec.metadata, prefs, "min_schools", "school", "Has schools")
    \o ThresholdReason(rec.metadata, prefs, "min_parks", "park", "Has parks")

-----------------------------------------------------------------------------
(* api_endpoint_v2.recommend *)

\* request bodies: one that get_json() reads as None, one that get_json()
\* cannot read (Content-Type application/json with nothing in it: BadRequest),
\* a body without 'query', a blank query, a query
RequestBodies == {"none", "empty_json", "no_query", "blank", "query"}

\* n_results=3 of the call in recommend (and in process_query)
ApiResults == 3

\* preference records whose fields outside main_v4's vocabulary are null
PreferenceRecordsV4 ==
    {p \in PreferenceRecords :
        \A f \in {"min_total_stations", "max_casualties", "max_severely_damaged",
                  "max_heavily_damaged", "earthquake_safe", "max_moderately_damaged",
                  "max_temporary_shelter_needed"} : p[f] = Null}

\* int(metadata.get(key, 0)) raises ValueError on NaN
IntRaises(meta, key) == MetaGet(meta, key, 0) = Null

FormatRaises(rec) ==
    \E key \in {"restaurant", "school", "park", "cafe"} : IntRaises(rec.metadata, key)

\* variant: the loop numbered from 0 (enumerate without the start value 1)
FormatRecommendationFromZero(rec, i, prefs) ==
    [rank             |-> i - 1,
     neighborhood     |-> rec.mahalle,
     district         |-> rec.ilce,
     similarity_score |-> rec.similarity,
     match_reasons    |-> explain_match_v4(rec, prefs)]
    @@ (IF "monthly_rent" \in DOMAIN rec
        THEN [financial |-> [monthly_rent     |-> rec.monthly_rent,
                             budget_remaining |-> rec.budget_remaining]]
        ELSE [k \in {} |-> Null])

\* one entry of response_data['recommendations']
FormatRecommendation(rec, i, prefs) ==
    [rank             |-> i,
     neighborhood     |-> rec.mahalle,
     district         |-> rec.ilce,
     similarity_score |-> rec.similarity,
     match_reasons    |-> explain_match_v4(rec, prefs)]
    @@ (IF "monthly_rent" \in DOMAIN rec
        THEN [financial |-> [monthly_rent     |-> rec.monthly_rent,
                             budget_remaining |-> rec.budget_remaining]]
        ELSE [k \in {} |-> Null])

\* the explain_match calls of the formatting loop: one per result, up to and
\* including the first result whose formatting raises
ExplainedBeforeRaise(recs, prefs) ==
    LET raising == {i \in 1..Len(recs) : FormatRaises(recs[i])}
        last == IF raising = {} THEN Len(recs)
                ELSE CHOOSE i \in raising : \A j \in raising : i <= j
    IN  [i \in 1..last |-> explain_match_v4(recs[i], prefs)]

ErrorResponse(code, message) ==
    [status |-> code, body |-> [status |-> "error", error |-> message]]

\* the success branch: response_data with the formatted recommendations, or
\* the generic 500 of the except clause when formatting raises
SuccessResponse(filtered, recs, total, prefs, rationale) ==
    IF \E i \in 1..Len(recs) : FormatRaises(recs[i])
    THEN ErrorResponse(500, "ValueError")
    ELSE [status |-> 200,
          body |-> [status |-> "success",
                    reasoning |-> rationale,
                    filters_applied |-> filtered.trace,
                    total_neighborhoods |-> total,
                    filtered_neighborhoods |-> Len(filtered.rows),
                    recommendations |->
                        [i \in 1..Len(recs) |-> FormatRecommendation(recs[i], i, prefs)]]]

-----------------------------------------------------------------------------
(* NeighborhoodAgent.extract_preferences_with_llm *)

\* a response of self.llm._call as the regular expressions of the extraction
\* see it: whether a REASONING: section is there, and what stands for the
\* preferences ("none": nothing, "invalid": a PREFERENCES: {...} block that is
\* not JSON, "valid": a PREFERENCES: block holding the JSON object json,
\* "unlabelled": the JSON object with a "monthly_budget" key but no label)
LlmText(has_reasoning, block, json) ==
    [kind |-> "text", has_reasoning |-> has_reasoning, block |-> block, json |-> json]

\* the call raised (self.llm is None, or a client that raises)
LlmRaises == [LlmText(FALSE, "none", EmptyPreferences) EXCEPT !.kind = "raises"]

\* message.content was None
LlmNone == [LlmText(FALSE, "none", EmptyPreferences) EXCEPT !.kind = "none"]

\* the empty string, or white space only
LlmBlank == [LlmText(FALSE, "none", EmptyPreferences) EXCEPT !.kind = "blank"]

\* GroqLLM._call caught an API error and returned f"Error: {error_msg}"
LlmErrorString == LlmText(FALSE, "none", EmptyPreferences)

\* every outcome of the call: the failures, and a JSON object out of jsons
\* in each of the given block forms, with or without a REASONING: section
LlmOutcomes(jsons, forms) ==
    {LlmRaises, LlmNone, LlmBlank, LlmErrorString}
    \cup {LlmText(r, b, EmptyPreferences) : r \in BOOLEAN, b \in {"none", "invalid"}}
    \cup {LlmText(r, b, j) : r \in BOOLEAN, b \in forms, j \in jsons}

\* reasoning_match.group(1).strip() if reasoning_match else the default text
ReasoningOf(llm) ==
    IF llm.has_reasoning THEN "reasoning of the model"
    ELSE "Understanding user preferences..."

\* main.py extract_preferences_with_llm: (preferences, reasoning)
extract_preferences_with_llm(llm) ==
    IF llm.kind = "raises"
    THEN [preferences |-> EmptyPreferences, reasoning |-> "Unable to extract preferences"]
    ELSE IF llm.kind \in {"none", "blank"}
    THEN [preferences |-> EmptyPreferences,
          reasoning   |-> "Unable to extract preferences - empty response"]
    ELSE IF llm.block \in {"valid", "unlabelled"}
    THEN [preferences |-> llm.json, reasoning |-> ReasoningOf(llm)]
    ELSE [preferences |-> EmptyPreferences, reasoning |-> ReasoningOf(llm)]

\* main_v4.py extract_preferences_with_llm: no empty-response test (re.search
\* raises on None), json.loads inside the one try, no unlabelled pattern
extract_preferences_with_llm_v4(llm) ==
    IF llm.kind \in {"raises", "none"} \/ (llm.kind = "text" /\ llm.block = "invalid")
    THEN [preferences |-> EmptyPreferences, reasoning |-> "Unable to extract preferences"]
    ELSE IF llm.kind = "text" /\ llm.block = "valid"
    THEN [preferences |-> llm.json, reasoning |-> ReasoningOf(llm)]
    ELSE [preferences |-> EmptyPreferences, reasoning |-> ReasoningOf(llm)]

-----------------------------------------------------------------------------
(* State machine *)

IdleResponse == [raises |-> FALSE, items |-> <<>>]
IdleHttp == [status |-> 0, body |-> [status |-> "none"]]
IdleLlm == [LlmText(FALSE, "none", EmptyPreferences) EXCEPT !.kind = "idle"]

\* the request threads of the server
Threads == {"t1", "t2"}

\* a thread that is serving no request
IdleThread ==
    [pc |-> "idle", prefs |-> EmptyPreferences, n |-> 0, resp |-> IdleResponse,
     frame |-> [id |-> "none", rows |-> <<>>], column |-> FALSE, trace |-> <<>>,
     steps |-> <<>>,
     result |-> [recommendations |-> <<>>, path |-> "none", queryCalls |-> 0,
                 fallbackCalls |-> 0],
     reasons |-> <<>>]

\* the values the request-local variables have between requests
Idle ==
    /\ op = "idle"
    /\ preferences = EmptyPreferences
    /\ n_results = 0
    /\ response = IdleResponse
    /\ filtered_df = <<>>
    /\ filters_applied = <<>>
    /\ recommendations = <<>>
    /\ path = "none"
    /\ queryCalls = 0
    /\ fallbackCalls = 0
    /\ match_reasons = <<>>
    /\ llm_response = IdleLlm
    /\ reasoning = ""
    /\ http = IdleHttp
    /\ threads = [t \in Threads |-> IdleThread]

\* largest n_results tried
MaxN == 3

\* the process is the CLI agent (main.py) or the API server (main_v4.py); the
\* collection was built from the same table, or exists with no documents; the
\* API server keeps running with agent = None when construction failed; the
\* four-row table is the one of the API server
Init ==
    /\ \E source \in Sources, program \in {"main", "v4"}, built \in BOOLEAN,
          constructed \in BOOLEAN :
          /\ constructed \/ program = "v4"
          /\ source = SourceD => program = "v4"
          /\ \E llm \in BOOLEAN :
                /\ llm \/ program = "v4"
                /\ agent = [program |-> program, constructed |-> constructed, llm |-> llm]
          /\ df = IF ~constructed THEN <<>>
                  ELSE IF program = "main" THEN LoadCatalog(source)
                  ELSE LoadCatalogV4(source)
          /\ collection = IF built /\ constructed THEN create_vector_db(source) ELSE <<>>
    /\ Idle

\* a call of main.py search_with_constraints(preferences, n_results), then
\* explain_match on every result, as process_query does with what it gets back
Search(prefs, n, resp) ==
    /\ op = "idle"
    /\ agent.program = "main"
    /\ \E f \in {filter_by_constraints(df, prefs)},
          out \in {search_with_constraints(df, prefs, n, resp)} :
           /\ op' = "search"
           /\ preferences' = prefs
           /\ n_results' = n
           /\ response' = IF out.queryCalls = 0 THEN IdleResponse ELSE resp
           /\ filtered_df' = IF f.raised THEN <<>> ELSE f.rows
           /\ filters_applied' = IF f.raised THEN <<>> ELSE f.trace
           /\ recommendations' = out.recommendations
           /\ path' = out.path
           /\ queryCalls' = out.queryCalls
           /\ fallbackCalls' = out.fallbackCalls
           /\ match_reasons' = [i \in 1..Len(out.recommendations) |->
                                  explain_match(out.recommendations[i], prefs)]
    /\ UNCHANGED <<threads, agent, df, collection, llm_response, reasoning, http>>

\* a call of main.py extract_preferences_with_llm(user_query)
Extract(llm) ==
    /\ op = "idle"
    /\ agent.program = "main"
    /\ op' = "extract"
    /\ llm_response' = llm
    /\ preferences' = extract_preferences_with_llm(llm).preferences
    /\ reasoning' = extract_preferences_with_llm(llm).reasoning
    /\ UNCHANGED <<threads, agent, df, collection, n_results, response, filtered_df,
                   filters_applied, recommendations, path, queryCalls, fallbackCalls,
                   match_reasons, http>>

\* variant: /health answering 503 while the agent is None
HealthResponseUnavailable ==
    [status |-> IF agent.constructed THEN 200 ELSE 503,
     body |-> [status |-> "healthy",
               agent_initialized |-> agent.constructed,
               llm_initialized |-> agent.llm]]

\* GET /health
HealthResponse ==
    [status |-> 200,
     body |-> [status |-> "healthy",
               agent_initialized |-> agent.constructed,
               llm_initialized |-> agent.llm]]

Health ==
    /\ op = "idle"
    /\ agent.program = "v4"
    /\ op' = "health"
    /\ http' = HealthResponse
    /\ UNCHANGED <<threads, agent, df, collection, preferences, n_results, response,
                   filtered_df, filters_applied, recommendations, path, queryCalls,
                   fallbackCalls, match_reasons, llm_response, reasoning>>

\* what recommend answers before it uses the agent: 503, 400, or the 500 of
\* its except clause when get_json() raises
RejectedResponse(body) ==
    IF ~agent.constructed THEN ErrorResponse(503, "Agent not initialized")
    ELSE IF body = "empty_json" THEN ErrorResponse(500, "BadRequest")
    ELSE IF body \in {"none", "no_query"}
    THEN ErrorResponse(400, "Query parameter is required")
    ELSE ErrorResponse(400, "Query cannot be empty")

\* POST /api/recommend answered before the agent is used
RecommendRejected(body) ==
    /\ op = "idle"
    /\ agent.program = "v4"
    /\ ~agent.constructed \/ body # "query"
    /\ op' = "rejected"
    /\ http' = RejectedResponse(body)
    /\ UNCHANGED <<threads, agent, df, collection, preferences, n_results, response,
                   filtered_df, filters_applied, recommendations, path, queryCalls,
                   fallbackCalls, match_reasons, llm_response, reasoning>>

\* POST /api/recommend with a query: oracle, filter, search, formatting
Recommend(llm, resp) ==
    /\ op = "idle"
    /\ agent.program = "v4"
    /\ agent.constructed
    /\ \E prefs \in {extract_preferences_with_llm_v4(llm).preferences} :
       \E f \in {filter_by_constraints_v4(df, prefs)},
          out \in {search_with_constraints_v4(df, prefs, ApiResults, resp)} :
           /\ op' = "recommend"
           /\ llm_response' = llm
           /\ reasoning' = extract_preferences_with_llm_v4(llm).reasoning
           /\ preferences' = prefs
           /\ n_results' = ApiResults
           /\ response' = IF out.queryCalls = 0 THEN IdleResponse ELSE resp
           /\ filtered_df' = IF f.raised THEN <<>> ELSE f.rows
           /\ filters_applied' = IF f.raised THEN <<>> ELSE f.trace
           /\ recommendations' = out.recommendations
           /\ path' = out.path
           /\ queryCalls' = out.queryCalls
           /\ fallbackCalls' = out.fallbackCalls
           /\ match_reasons' = ExplainedBeforeRaise(out.recommendations, prefs)
           /\ http' = IF f.raised THEN ErrorResponse(500, "TypeError")
                      ELSE SuccessResponse(f, out.recommendations, Len(df), prefs,
                                           extract_preferences_with_llm_v4(llm).reasoning)
    /\ UNCHANGED <<threads, agent, df, collection>>

\* the handler has returned; the next request starts from fresh locals
NextRequest ==
    /\ op # "idle"
    /\ op' = "idle"
    /\ preferences' = EmptyPreferences
    /\ n_results' = 0
    /\ response' = IdleResponse
    /\ filtered_df' = <<>>
    /\ filters_applied' = <<>>
    /\ recommendations' = <<>>
    /\ path' = "none"
    /\ queryCalls' = 0
    /\ fallbackCalls' = 0
    /\ match_reasons' = <<>>
    /\ llm_response' = IdleLlm
    /\ reasoning' = ""
    /\ http' = IdleHttp
    /\ UNCHANGED <<threads, agent, df, collection>>

Next ==
    \/ /\ op = "idle" /\ agent.program = "main"
       /\ \E prefs \in PreferenceRecords, n \in 0..MaxN,
             resp \in QueryOutcomes(df, collection) : Search(prefs, n, resp)
    \/ /\ op = "idle" /\ agent.program = "v4"
       /\ \E body \in RequestBodies : RecommendRejected(body)
    \/ /\ op = "idle" /\ agent.program = "main"
       /\ \E llm \in LlmOutcomes(PreferenceRecords, {"valid", "unlabelled"}) : Extract(llm)
    \/ /\ op = "idle" /\ agent.program = "v4" /\ agent.constructed
       /\ \E llm \in (IF agent.llm THEN LlmOutcomes(PreferenceRecordsV4, {"valid"})
                      ELSE {LlmRaises}),
             resp \in QueryOutcomes(df, collection) : Recommend(llm, resp)
    \/ Health
    \/ NextRequest

Spec == Init /\ [][Next]_vars

-----------------------------------------------------------------------------
(* vector_db_creation.py run on its own over an arbitrary source table *)

\* longest source table the index build is run on
MaxRows == 3

\* rows a source table is drawn from: a name, the same name again with other
\* figures, the same name in another district, a name that ends in "_1", and
\* an unrelated name
BuildRows ==
    { Row("Fatih", "Balat", <<350, 30, 60, 12000, 3, 2, 1, 2, 1, 0, 0, 3, 1, 1, 6, 60>>),
      Row("Fatih", "Balat", <<450, 30, 40, 12000, 3, 2, 1, 2, 1, 0, 0, 8, 2, 4, 12, 150>>),
      Row("Eyup", "Balat", <<250, 55, 45, 8000, 1, 1, 1, 1, 1, 0, 0, 2, 0, 1, 3, 20>>),
      Row("Fatih", "Balat_1", <<400, 25, 50, 7000, 2, 1, 0, 3, 1, 0, 0, 5, 1, 2, 8, 90>>),
      Row("Fatih", "Fener", <<380, 35, 55, 6000, 4, 1, 1, 5, 2, 0, 0, 4, 1, 3, 9, 70>>) }

\* every source table of at most MaxRows rows
BuildSources == UNION { [1..k -> BuildRows] : k \in 0..MaxRows }

\* before the build: no table loaded, no collection
InitBuild ==
    /\ agent = [program |-> "build", constructed |-> FALSE, llm |-> FALSE]
    /\ df = <<>>
    /\ collection = <<>>
    /\ Idle

\* VectorDBCreator: load_data reads the table, create_vector_db fills the
\* collection with one entry per row
Build(source) ==
    /\ op = "idle"
    /\ op' = "built"
    /\ df' = source
    /\ collection' = create_vector_db(source)
    /\ UNCHANGED <<threads, agent, preferences, n_results, response, filtered_df, filters_applied,
                   recommendations, path, queryCalls, fallbackCalls, match_reasons,
                   llm_response, reasoning, http>>

NextBuild == \E source \in BuildSources : Build(source)

SpecBuild == InitBuild /\ [][NextBuild]_vars

-----------------------------------------------------------------------------
(* Requests served concurrently by one agent (threaded server): each thread *)
(* runs filter_by_constraints, search_with_constraints and explain_match   *)
(* on its own locals, one statement group at a time                        *)

\* preference records of the concurrent requests: a budget with the default
\* size, the same budget with a stated size, a park minimum, a threshold of
\* the wrong type
ConcPreferences ==
    { [EmptyPreferences EXCEPT !["monthly_budget"] = 32000],
      [EmptyPreferences EXCEPT !["monthly_budget"] = 32000, !["apartment_size_sqm"] = 100],
      [EmptyPreferences EXCEPT !["min_parks"] = 1],
      [EmptyPreferences EXCEPT !["min_schools"] = WrongType] }

\* index responses of the concurrent requests: the query raises, or returns a
\* well-formed list headed by the last entry of the collection
ConcResponses(catalog, coll) ==
    {r \in QueryOutcomes(catalog, coll) :
        \/ r.raises
        \/ /\ Len(r.items) > 0
           /\ r.items[1].id = coll[Len(coll)].id
           /\ \A i \in 1..Len(r.items) : r.items[i].metadata # MalformedMetadata}

\* variant: the working frame is self.df itself
DataFrameAlias(owner, frame) == frame

\* self.df.copy(): a new frame object, owned by the calling thread, with the
\* same rows
DataFrameCopy(owner, frame) == [id |-> owner, rows |-> frame.rows]

\* the rows of the frame a thread's filtered_df refers to
FrameRows(local) == IF local.frame.id = "catalog" THEN df ELSE local.frame.rows

\* frame['estimated_rent'] = value: the column is added, or overwritten
SetColumn(row, value) ==
    IF "estimated_rent" \in DOMAIN row THEN [row EXCEPT !["estimated_rent"] = value]
    ELSE row @@ ("estimated_rent" :> value)

\* filtered_df['estimated_rent'] = filtered_df['Avg_Rent_Per_SqM'] * apartment_size
AssignRent(rows, prefs) ==
    [i \in 1..Len(rows) |-> SetColumn(rows[i], EstimatedRent(rows[i].Avg_Rent_Per_SqM, prefs))]

\* filtered_df[filtered_df['estimated_rent'] <= monthly_budget]
BudgetMask(rows, prefs) ==
    SelectSeq(rows, LAMBDA r : Le(r.estimated_rent, prefs["monthly_budget"]))

\* one agent of main.py with its collection; no request in progress
InitConc ==
    /\ agent = [program |-> "main", constructed |-> TRUE, llm |-> TRUE]
    /\ \E source \in {SourceA, SourceB} :
          /\ df = LoadCatalog(source)
          /\ collection = create_vector_db(source)
    /\ Idle

\* a thread takes a request: filtered_df = self.df.copy(); filters_applied = []
BeginRequest(t, prefs, n, resp) ==
    /\ threads[t].pc = "idle"
    /\ threads' = [threads EXCEPT ![t] =
                     [IdleThread EXCEPT !.pc = "filter", !.prefs = prefs, !.n = n,
                                        !.resp = resp, !.steps = FilterSteps,
                                        !.frame = DataFrameCopy(t, [id |-> "catalog",
                                                                    rows |-> df])]]
    /\ UNCHANGED <<agent, df, collection, op, preferences, n_results, response,
                   filtered_df, filters_applied, recommendations, path, queryCalls,
                   fallbackCalls, match_reasons, llm_response, reasoning, http>>

\* the first statement of the budget block: the column is written in place,
\* into whatever frame filtered_df refers to
WriteRentColumn(t) ==
    /\ threads[t].pc = "filter"
    /\ threads[t].steps # <<>>
    /\ Head(threads[t].steps) = "monthly_budget"
    /\ StepApplies(threads[t].prefs, "monthly_budget")
    /\ ~threads[t].column
    /\ IF threads[t].frame.id = "catalog"
       THEN /\ df' = AssignRent(df, threads[t].prefs)
            /\ threads' = [threads EXCEPT ![t].column = TRUE]
       ELSE /\ df' = df
            /\ threads' = [threads EXCEPT ![t].column = TRUE,
                                          ![t].frame.rows =
                                              AssignRent(threads[t].frame.rows,
                                                         threads[t].prefs)]
    /\ UNCHANGED <<agent, collection, op, preferences, n_results, response,
                   filtered_df, filters_applied, recommendations, path, queryCalls,
                   fallbackCalls, match_reasons, llm_response, reasoning, http>>

\* what one if-block leaves in the thread's locals: the mask of the block
\* read from the frame, the result bound to filtered_df as a new frame
BlockResult(local, f) ==
    IF f = "monthly_budget" /\ StepApplies(local.prefs, f)
    THEN [rows   |-> BudgetMask(FrameRows(local), local.prefs),
          trace  |-> Append(local.trace, StepDescription(local.prefs, f)),
          raised |-> FALSE]
    ELSE ApplyStep(FrameRows(local),
                   [rows |-> FrameRows(local), trace |-> local.trace, raised |-> FALSE],
                   local.prefs, f)

\* one if-block of filter_by_constraints (the rest of the budget block once
\* the column is written); an exception leaves the handler
FilterBlock(t) ==
    /\ threads[t].pc = "filter"
    /\ threads[t].steps # <<>>
    /\ (Head(threads[t].steps) = "monthly_budget"
          /\ StepApplies(threads[t].prefs, "monthly_budget")) => threads[t].column
    /\ \E f \in {Head(threads[t].steps)} :
       \E st \in {BlockResult(threads[t], f)} :
          threads' = [threads EXCEPT ![t] =
             IF st.raised
             THEN [threads[t] EXCEPT !.pc = "done", !.result = RaisedOutcome]
             ELSE [threads[t] EXCEPT
                      !.pc = IF Tail(threads[t].steps) = <<>> THEN "search" ELSE "filter",
                      !.steps = Tail(threads[t].steps),
                      !.trace = st.trace,
                      !.frame = IF StepApplies(threads[t].prefs, f)
                                THEN [id |-> t, rows |-> st.rows]
                                ELSE threads[t].frame]]
    /\ UNCHANGED <<agent, df, collection, op, preferences, n_results, response,
                   filtered_df, filters_applied, recommendations, path, queryCalls,
                   fallbackCalls, match_reasons, llm_response, reasoning, http>>

\* the rest of search_with_constraints: empty check, query, walk or fallback
RankCandidates(t) ==
    /\ threads[t].pc = "search"
    /\ threads' = [threads EXCEPT ![t].pc = "explain",
                                  ![t].result =
                                      SearchFiltered(FrameRows(threads[t]), threads[t].prefs,
                                                     threads[t].n, threads[t].resp, "main")]
    /\ UNCHANGED <<agent, df, collection, op, preferences, n_results, response,
                   filtered_df, filters_applied, recommendations, path, queryCalls,
                   fallbackCalls, match_reasons, llm_response, reasoning, http>>

\* explain_match on every result
ExplainResults(t) ==
    /\ threads[t].pc = "explain"
    /\ threads' = [threads EXCEPT ![t].pc = "done",
                                  ![t].reasons =
                                      [i \in 1..Len(threads[t].result.recommendations) |->
                                          explain_match(threads[t].result.recommendations[i],
                                                        threads[t].prefs)]]
    /\ UNCHANGED <<agent, df, collection, op, preferences, n_results, response,
                   filtered_df, filters_applied, recommendations, path, queryCalls,
                   fallbackCalls, match_reasons, llm_response, reasoning, http>>

\* the thread has answered and is free for the next request
ReturnResult(t) ==
    /\ threads[t].pc = "done"
    /\ threads' = [threads EXCEPT ![t] = IdleThread]
    /\ UNCHANGED <<agent, df, collection, op, preferences, n_results, response,
                   filtered_df, filters_applied, recommendations, path, queryCalls,
                   fallbackCalls, match_reasons, llm_response, reasoning, http>>

NextConc ==
    \/ \E t \in Threads, prefs \in ConcPreferences,
          resp \in ConcResponses(df, collection) : BeginRequest(t, prefs, ApiResults, resp)
    \/ \E t \in Threads : WriteRentColumn(t)
    \/ \E t \in Threads : FilterBlock(t)
    \/ \E t \in Threads : RankCandidates(t)
    \/ \E t \in Threads : ExplainResults(t)
    \/ \E t \in Threads : ReturnResult(t)

SpecConc == InitConc /\ [][NextConc]_vars

-----------------------------------------------------------------------------
(* Properties of search_with_constraints *)

SeqToSet(s) == {s[i] : i \in 1..Len(s)}

\* the request-local values come from a call of main.py
\* search_with_constraints that returned
Searched == op = "search" /\ path # "raised"

\* (district, name) of a result is the pair of one candidate row
IsCandidatePair(rec, rows) ==
    \E j \in 1..Len(rows) : rows[j].Ilce = rec.ilce /\ rows[j].Mahalle = rec.mahalle

\* what the post-filter walk did with the response of the request
WalkOfRequest ==
    Walk(response.items, <<>>,
         {filtered_df[i].Mahalle : i \in 1..Len(filtered_df)},
         {filtered_df[i].Ilce : i \in 1..Len(filtered_df)}, n_results)

\* the index was queried and the query, or the walk over its response, raised
SemanticFailed ==
    /\ queryCalls > 0
    /\ response.raises \/ WalkOfRequest.raised

\* C1: on the semantic path every result's (district, name) pair is the pair
\* of one record of the candidate set; a pair mixing the name of one candidate
\* with the district of another is not accepted.
C1_ResultsAreCandidates ==
    (Searched /\ path = "semantic") =>
        \A i \in 1..Len(recommendations) : IsCandidatePair(recommendations[i], filtered_df)

\* C2: for every n >= 0, n = 0 included, at most n results are returned, on
\* the semantic path and on the fallback path.
C2_AtMostN ==
    Searched => Len(recommendations) <= n_results

\* C3: with a non-empty candidate set, a query that succeeds and a post-filter
\* that keeps nothing, the result is the fallback ranking of the candidates
\* (top n by welfare index), not an empty list.
C3_ZeroKeptFallsBack ==
    (/\ Searched
     /\ Len(filtered_df) > 0
     /\ queryCalls > 0
     /\ ~SemanticFailed
     /\ \A i \in 1..Len(response.items) :
            ~IsCandidatePair([ilce    |-> response.items[i].metadata["ilce"],
                              mahalle |-> response.items[i].metadata["mahalle"]],
                             filtered_df))
    => recommendations = FallbackRanking(filtered_df, preferences, n_results, "main")

\* C4: with a non-empty candidate set, when the query or the processing of
\* its response raises, the handler returns (does not raise), the index was
\* queried exactly once, and the list is exactly the fallback ranking of the
\* candidate set, with no item collected by the failed walk.
C4_ErrorFallsBack ==
    (Searched /\ Len(filtered_df) > 0 /\ (response.raises \/ WalkOfRequest.raised)) =>
        /\ path = "fallback"
        /\ queryCalls = 1
        /\ fallbackCalls = 1
        /\ recommendations = FallbackRanking(filtered_df, preferences, n_results, "main")
        /\ \A i \in 1..Len(recommendations) :
              \A j \in 1..Len(WalkOfRequest.kept) :
                 recommendations[i] # SemanticRec(WalkOfRequest.kept[j], preferences)

\* C4 witness: the walk had kept an item when a malformed item raised, and the
\* fallback returned results
C4_Witness ==
    /\ Searched
    /\ ~response.raises
    /\ WalkOfRequest.raised
    /\ Len(WalkOfRequest.kept) > 0
    /\ path = "fallback"
    /\ Len(recommendations) > 0

\* C5: with an empty candidate set the result is the empty list, nothing is
\* raised, and neither the index query nor the fallback ranker is invoked.
C5_EmptyCandidatesShortCircuit ==
    (Searched /\ Len(filtered_df) = 0) =>
        /\ recommendations = <<>>
        /\ path = "empty"
        /\ queryCalls = 0
        /\ fallbackCalls = 0

\* C5 witness: the filter removed every row of a non-empty catalog
C5_Witness ==
    /\ Searched
    /\ Len(df) > 0
    /\ Len(collection) > 0
    /\ Len(filtered_df) = 0
    /\ recommendations = <<>>

-----------------------------------------------------------------------------
(* Properties of filter_by_constraints *)

\* the steps whose if-block the code enters for these preferences
ActiveSteps(prefs) == {f \in SeqToSet(FilterSteps) : StepApplies(prefs, f)}

\* every order in which the given steps can be applied
Orderings(steps) ==
    {o \in [1..Cardinality(steps) -> steps] :
        \A i, j \in 1..Cardinality(steps) : i # j => o[i] # o[j]}

\* the rows of the catalog satisfying every active predicate, in catalog order
Conjunction(catalog, prefs) ==
    SelectSeq(catalog, LAMBDA r : \A f \in ActiveSteps(prefs) : StepPasses(prefs, f, r))

\* trace entries describing field f
TraceEntries(trace, f) == {i \in 1..Len(trace) : trace[i].filter = f}

\* C6: for a preference record whose fields are all null, the candidate set
\* is the full catalog and the trace of applied filters is empty.
C6_NullPreferencesKeepCatalog ==
    (Searched /\ \A f \in PrefFields : preferences[f] = Null) =>
        /\ filtered_df = df
        /\ filters_applied = <<>>

\* C6 witness: an all-null request against a non-empty catalog
C6_Witness ==
    /\ Searched
    /\ preferences = EmptyPreferences
    /\ Len(df) > 1
    /\ filtered_df = df

\* C7: the candidate set is the set of catalog records satisfying the
\* conjunction of all active predicates, and applying the same predicates in
\* any other order yields the same candidate set.
C7_FilterIsConjunction ==
    Searched =>
        /\ filtered_df = Conjunction(df, preferences)
        /\ \A o \in Orderings(ActiveSteps(preferences)) :
              RunSteps(df, FilterStart(df), preferences, o).rows = filtered_df

\* C7 witness: two active predicates, each removing a row the other keeps
C7_Witness ==
    /\ Searched
    /\ \E f, g \in ActiveSteps(preferences) :
          /\ f # g
          /\ \E i, j \in 1..Len(df) :
                /\ ~StepPasses(preferences, f, df[i]) /\ StepPasses(preferences, g, df[i])
                /\ StepPasses(preferences, f, df[j]) /\ ~StepPasses(preferences, g, df[j])
    /\ Len(filtered_df) > 0
    /\ Len(filtered_df) < Len(df)

\* C8: every threshold field with a non-null value (zero included) narrows
\* the working set to the rows satisfying its predicate and adds exactly one
\* description to the trace; a null field applies nothing and adds nothing.
C8_NonNullFieldApplied ==
    Searched =>
        \A f \in SeqToSet(FilterSteps) :
            IF preferences[f] # Null
            THEN /\ Cardinality(TraceEntries(filters_applied, f)) = 1
                 /\ \A i \in 1..Len(filtered_df) : StepPasses(preferences, f, filtered_df[i])
            ELSE TraceEntries(filters_applied, f) = {}

-----------------------------------------------------------------------------
(* Properties of the financial fields *)

\* rec carries a computed budget_remaining below zero
NegativeRemainder(rec) ==
    /\ "budget_remaining" \in DOMAIN rec
    /\ rec.monthly_rent # Null
    /\ rec.budget_remaining < 0

\* C9: whenever monthly_budget is set (here: set to a non-zero amount, the
\* case in which the code computes the field), every returned result carries
\* budget_remaining >= 0, on the semantic and on the fallback path.
C9_BudgetRemainingNonNegative ==
    (Searched /\ Truthy(preferences["monthly_budget"])) =>
        \A i \in 1..Len(recommendations) :
            /\ "budget_remaining" \in DOMAIN recommendations[i]
            /\ ~NegativeRemainder(recommendations[i])

\* C10: a result whose computed budget_remaining is negative makes the request
\* fail with a distinguishable error; it is never returned or serialized as
\* an ordinary recommendation.
C10_NegativeRemainderFails ==
    (op = "recommend" /\ \E i \in 1..Len(recommendations) :
                            NegativeRemainder(recommendations[i]))
    => http.status # 200

-----------------------------------------------------------------------------
(* Properties of the fallback ranking *)

\* positions of the candidate rows behind the fallback results: pos[k] is the
\* row of filtered_df that result k was built from
FallbackPositions ==
    {pos \in [1..Len(recommendations) -> 1..Len(filtered_df)] :
        \A k \in 1..Len(recommendations) :
            recommendations[k] = FallbackRec(filtered_df[pos[k]], preferences, "main")}

\* row i of the candidate set ranks ahead of row j: higher welfare index, or
\* the same welfare index and earlier in the catalog
RanksAhead(i, j) ==
    \/ filtered_df[i].Society_Welfare_Index > filtered_df[j].Society_Welfare_Index
    \/ /\ filtered_df[i].Society_Welfare_Index = filtered_df[j].Society_Welfare_Index
       /\ i < j

\* C11: on the fallback path the result is the first n records of the
\* candidate set sorted by welfare index in descending order, records with
\* equal welfare index in catalog order; the list is determined by the
\* candidate set and n alone, so two invocations return identical lists.
C11_FallbackIsSortedPrefix ==
    (Searched /\ path = "fallback") =>
        /\ Len(recommendations) = Min(n_results, Len(filtered_df))
        /\ \E pos \in FallbackPositions :
              /\ \A k \in 1..(Len(recommendations) - 1) : RanksAhead(pos[k], pos[k + 1])
              /\ \A j \in 1..Len(filtered_df) :
                    (\A k \in 1..Len(recommendations) : pos[k] # j) =>
                        \A k \in 1..Len(recommendations) : RanksAhead(pos[k], j)
        /\ recommendations = FallbackRanking(filtered_df, preferences, n_results, "main")

\* C11 witness: the fallback returned two candidates of equal welfare index
C11_Witness ==
    /\ Searched
    /\ path = "fallback"
    /\ Len(recommendations) >= 2
    /\ \E k \in 1..(Len(recommendations) - 1) :
          recommendations[k].metadata["society_welfare_index"]
              = recommendations[k + 1].metadata["society_welfare_index"]

-----------------------------------------------------------------------------
(* Properties of explain_match *)

\* the request explained its results: main.py after a search, the API handler
\* while formatting
Explained == op \in {"search", "recommend"}

\* the preference fields a reason is about
ReasonFields(text) ==
    CASE text \in {"Well under budget", "Within budget"} -> {"monthly_budget"}
      [] text = "Meets green space requirement"          -> {"min_green_index"}
      [] text = "Has schools"                            -> {"min_schools"}
      [] text = "Has parks"                              -> {"min_parks"}
      [] text = "Good public transport"                  -> {"min_total_stations"}
      [] OTHER -> {"earthquake_safe", "max_casualties"}

\* every reason emitted for the results of the request
EmittedReasons ==
    UNION {SeqToSet(match_reasons[i]) : i \in 1..Len(match_reasons)}

\* C12: explain_match emits no reason about a preference field that is null:
\* no budget reason when monthly_budget is null, no green/school/park/transit
\* reason when its minimum is null, and no earthquake reason when both
\* earthquake_safe and max_casualties are null.
C12_NoReasonForNullField ==
    Explained =>
        \A r \in EmittedReasons : \E f \in ReasonFields(r.reason) : preferences[f] # Null

\* C12 witness: a result got a reason for the one field that is set while a
\* result attribute would meet any threshold on the fields left null
C12_Witness ==
    /\ Explained
    /\ Cardinality({f \in PrefFields : preferences[f] # Null}) = 1
    /\ \E i \in 1..Len(match_reasons) :
          /\ Len(match_reasons[i]) = 1
          /\ MetaGet(recommendations[i].metadata, "park", 0) > 0
          /\ MetaGet(recommendations[i].metadata, "green_index", 0) > 0

\* the catalog records a result can stand for: same district and name
CatalogRecords(rec) ==
    {i \in 1..Len(df) : df[i].Ilce = rec.ilce /\ df[i].Mahalle = rec.mahalle}

\* reason r is true of catalog row: the preference it names is met by the row
\* and the quoted value is the row's attribute
ReasonHolds(r, row, prefs) ==
    CASE r.reason \in {"Well under budget", "Within budget"} ->
            /\ row.Avg_Rent_Per_SqM # Null
            /\ r.value = prefs["monthly_budget"] - EstimatedRent(row.Avg_Rent_Per_SqM, prefs)
            /\ r.value > 0
      [] r.reason = "Meets green space requirement" ->
            r.value = row.Green_Index /\ Ge(row.Green_Index, prefs["min_green_index"])
      [] r.reason = "Has schools" ->
            r.value = row.school /\ Ge(row.school, prefs["min_schools"])
      [] r.reason = "Has parks" ->
            r.value = row.park /\ Ge(row.park, prefs["min_parks"])
      [] r.reason = "Good public transport" ->
            r.value = row.total_stations
            /\ Ge(row.total_stations, prefs["min_total_stations"])
      [] OTHER ->
            /\ r.value = row.can_kaybi_sayisi
            /\ prefs["max_casualties"] # Null =>
                  Le(row.can_kaybi_sayisi, prefs["max_casualties"])

\* C13: every reason emitted for a result of search_with_constraints names a
\* preference that the recommended neighbourhood's catalog record satisfies
\* and quotes that record's attribute; an earthquake-safety reason quotes the
\* record's own expected-casualty count and is not emitted for a record whose
\* count exceeds max_casualties.
C13_ReasonsAreTrueOfRecord ==
    Searched =>
        \A i \in 1..Len(match_reasons) :
            \A r \in SeqToSet(match_reasons[i]) :
                \E j \in CatalogRecords(recommendations[i]) :
                    ReasonHolds(r, df[j], preferences)

-----------------------------------------------------------------------------
(* Properties of the catalog *)

\* a station count with a missing value counted as 0
Counted(x) == IF x = Null THEN 0 ELSE x

\* total_stations of the row is the sum of its three station counts
StationsAddUp(row) ==
    row.total_stations
        = Counted(row.bus_station) + Counted(row.train_station) + Counted(row.transit_station)

\* C14: every record of the catalog held by the main.py agent has
\* total_stations = bus_station + train_station + transit_station, a missing
\* count contributing 0; the value set at load is the one every later request
\* sees: in the catalog, in the candidate set and in the fallback results.
C14_TotalStationsIsSum ==
    agent.program = "main" =>
        /\ \A i \in 1..Len(df) : StationsAddUp(df[i])
        /\ \A i \in 1..Len(filtered_df) :
              StationsAddUp(filtered_df[i]) /\ filtered_df[i] \in SeqToSet(df)
        /\ path = "fallback" =>
              \A i \in 1..Len(recommendations) :
                  \E j \in 1..Len(df) :
                      /\ StationsAddUp(df[j])
                      /\ recommendations[i].metadata["total_stations"] = df[j].total_stations
                      /\ recommendations[i].mahalle = df[j].Mahalle
                      /\ recommendations[i].ilce = df[j].Ilce

\* C14 witness: a station threshold was applied and kept a record with a
\* missing count, which the fallback then returned
C14_Witness ==
    /\ Searched
    /\ preferences["min_total_stations"] # Null
    /\ path = "fallback"
    /\ \E i \in 1..Len(recommendations) :
          /\ recommendations[i].metadata["transit_station"] = Null
          /\ recommendations[i].metadata["total_stations"] > 0

\* C15: after load the catalog holds no record named 'Unknown', and after any
\* sequence of requests no candidate set, semantic result or fallback result
\* refers to such a record, even when the vector index holds an entry for it.
C15_NoUnknownRecord ==
    /\ \A i \in 1..Len(df) : df[i].Mahalle # "Unknown"
    /\ \A i \in 1..Len(filtered_df) : filtered_df[i].Mahalle # "Unknown"
    /\ \A i \in 1..Len(recommendations) :
          /\ recommendations[i].mahalle # "Unknown"
          /\ MetaGet(recommendations[i].metadata, "mahalle", "") # "Unknown"

\* C15 witness: the index answered with its 'Unknown' entry ranked first and
\* the semantic path returned results
C15_Witness ==
    /\ Explained
    /\ path = "semantic"
    /\ Len(response.items) > 0
    /\ MetaGet(response.items[1].metadata, "mahalle", "") = "Unknown"
    /\ Len(recommendations) > 0

\* C16: after load, no two catalog records have the same identifier
\* Mahalle_ID (district + '_' + name), for every source table once the
\* 'Unknown' records are dropped.
C16_MahalleIdUnique ==
    \A i, j \in 1..Len(df) : i # j => df[i].Mahalle_ID # df[j].Mahalle_ID

\* C17: filter_by_constraints never raises: a threshold of the wrong type (a
\* string where a number is expected) is treated as null for that field, with
\* no predicate and no trace entry for it, while every other non-null field
\* is still applied.
C17_WrongTypeTreatedAsNull ==
    (Explained /\ \E f \in PrefFields : preferences[f] = WrongType) =>
        /\ path # "raised"
        /\ \A f \in PrefFields :
              preferences[f] = WrongType => TraceEntries(filters_applied, f) = {}
        /\ filtered_df =
              filter_by_constraints(df, [f \in PrefFields |->
                  IF preferences[f] = WrongType THEN Null ELSE preferences[f]]).rows

-----------------------------------------------------------------------------
(* Properties of the earthquake filters *)

\* the five earthquake maxima and the simulation column each one bounds
EarthquakeMaxima ==
    {"max_casualties", "max_severely_damaged", "max_heavily_damaged",
     "max_moderately_damaged", "max_temporary_shelter_needed"}

EarthquakeColumn(m) ==
    CASE m = "max_casualties"               -> "can_kaybi_sayisi"
      [] m = "max_severely_damaged"         -> "cok_agir_hasarli_bina_sayisi"
      [] m = "max_heavily_damaged"          -> "agir_hasarli_bina_sayisi"
      [] m = "max_moderately_damaged"       -> "orta_hasarli_bina_sayisi"
      [] m = "max_temporary_shelter_needed" -> "gecici_barinma"

\* C18: each of the five earthquake maxima, when non-null, is applied as its
\* own "<= threshold" predicate, independently of the other four and of
\* earthquake_safe, so every candidate satisfies each non-null maximum.
C18_EveryMaximumApplied ==
    Searched =>
        \A m \in EarthquakeMaxima :
            preferences[m] # Null =>
                /\ \A i \in 1..Len(filtered_df) :
                      Le(filtered_df[i][EarthquakeColumn(m)], preferences[m])
                /\ Cardinality(TraceEntries(filters_applied, m)) = 1

\* the preference record of the request with earthquake_safe left null
WithoutSafeFlag == [preferences EXCEPT !["earthquake_safe"] = Null]

\* C19: when the numeric earthquake thresholds are all null, the filter
\* returns the same candidate set and the same trace with earthquake_safe =
\* true as with earthquake_safe = null: the flag alone removes no record and
\* adds no trace entry.
C19_SafeFlagAloneIsNoOp ==
    (/\ Searched
     /\ Truthy(preferences["earthquake_safe"])
     /\ \A m \in EarthquakeMaxima : preferences[m] = Null)
    => /\ filtered_df = filter_by_constraints(df, WithoutSafeFlag).rows
       /\ filters_applied = filter_by_constraints(df, WithoutSafeFlag).trace
       /\ \A i \in 1..Len(filters_applied) :
             filters_applied[i].filter \notin {"earthquake_safe", "max_casualties"}

\* C19 witness: earthquake_safe is set next to another threshold, and a
\* record with expected casualties stays in the candidate set
C19_Witness ==
    /\ Searched
    /\ Truthy(preferences["earthquake_safe"])
    /\ \A m \in EarthquakeMaxima : preferences[m] = Null
    /\ Len(filters_applied) = 1
    /\ \E i \in 1..Len(filtered_df) : filtered_df[i].can_kaybi_sayisi > 0
    /\ Len(filtered_df) < Len(df)

-----------------------------------------------------------------------------
(* Properties of extract_preferences_with_llm *)

\* the request called the language model
Extracted == op \in {"extract", "recommend"}

\* the call gave nothing to extract preferences from: it raised, returned
\* nothing or blank text, returned text without a preferences object (an
\* "Error: ..." string included), or a PREFERENCES block that is not JSON
LlmFailed ==
    \/ llm_response.kind \in {"raises", "none", "blank"}
    \/ llm_response.kind = "text" /\ llm_response.block \in {"none", "invalid"}

\* the rationale says that the extraction failed
ExplainsFailure(text) ==
    text \in {"Unable to extract preferences",
              "Unable to extract preferences - empty response"}

\* C20: for every failing outcome of the language-model call (exception,
\* empty text, an "Error: ..." string, text without a PREFERENCES block, a
\* PREFERENCES block that is not valid JSON) the extraction does not raise and
\* returns the all-null preference record with a rationale that explains the
\* failure.
C20_FailedExtractionExplained ==
    (Extracted /\ LlmFailed) =>
        /\ preferences = EmptyPreferences
        /\ ExplainsFailure(reasoning)

-----------------------------------------------------------------------------
(* Properties of the scores *)

\* C21: every result returned by search_with_constraints carries a score
\* within [0,1] (0..100 in hundredths): similarity = 1 - distance on the
\* semantic path for every distance the index can return, a quality value in
\* [0,1] on the fallback path.
C21_ScoreInUnitInterval ==
    Searched =>
        \A i \in 1..Len(recommendations) :
            recommendations[i].similarity >= 0 /\ recommendations[i].similarity <= 100

-----------------------------------------------------------------------------
(* Properties of the HTTP API *)

\* C22: the recommendations list of every successful /api/recommend response
\* has at most the requested 3 entries, in the order the ranker returned
\* them, with rank fields exactly 1, 2, ..., k in list order.
C22_RanksAreOneToK ==
    (op = "recommend" /\ http.status = 200) =>
        LET listed == http.body.recommendations
        IN  /\ Len(listed) <= ApiResults
            /\ Len(listed) = Len(recommendations)
            /\ \A i \in 1..Len(listed) :
                  /\ listed[i].rank = i
                  /\ listed[i].neighborhood = recommendations[i].mahalle
                  /\ listed[i].district = recommendations[i].ilce
                  /\ listed[i].similarity_score = recommendations[i].similarity

\* C22 witness: four candidates, all of them in the index response, and a
\* successful answer listing three
C22_Witness ==
    /\ op = "recommend"
    /\ http.status = 200
    /\ Len(filtered_df) > ApiResults
    /\ Len(response.items) > ApiResults
    /\ path = "semantic"
    /\ Len(http.body.recommendations) = ApiResults

\* C24: GET /health always answers 200, whether or not the agent and the
\* language-model client were initialised, and its agent_initialized and
\* llm_initialized fields equal the initialisation state of each.
C24_HealthAlways200 ==
    op = "health" =>
        /\ http.status = 200
        /\ http.body.agent_initialized = agent.constructed
        /\ http.body.llm_initialized = agent.llm

\* C24 witness: /health answered while neither the agent nor the client
\* had been initialised
C24_Witness ==
    /\ op = "health"
    /\ ~agent.constructed
    /\ ~agent.llm
    /\ http.status = 200

\* C27: POST /api/recommend answers 503 whenever the agent failed to
\* initialise, whatever the body; otherwise 400 when the body is missing, has
\* no 'query' key or the query is blank; in all these cases the oracle, the
\* filter and the vector index are not invoked.
C27_RejectedBeforeAgentUse ==
    op = "rejected" =>
        /\ http.status = IF agent.constructed THEN 400 ELSE 503
        /\ llm_response = IdleLlm
        /\ filtered_df = <<>> /\ filters_applied = <<>>
        /\ queryCalls = 0 /\ fallbackCalls = 0

-----------------------------------------------------------------------------
(* Properties of the semantic path *)

\* the items of the index response that are records of the candidate set,
\* in the rank order of the response
CandidateItems ==
    SelectSeq(response.items,
              LAMBDA it : /\ "mahalle" \in DOMAIN it.metadata
                          /\ IsCandidatePair([ilce    |-> it.metadata["ilce"],
                                               mahalle |-> it.metadata["mahalle"]],
                                              filtered_df))

\* what a result says about the item it was made from
ItemOfResult(rec) ==
    [mahalle |-> rec.mahalle, ilce |-> rec.ilce,
     similarity |-> rec.similarity, metadata |-> rec.metadata]

\* C25: on the semantic path the returned list is exactly the first
\* min(n, k) items of the oversampled response that belong to the candidate
\* set, in the rank order of the response (k = number of such items), each
\* with similarity = 1 - distance; no item is reordered, duplicated or
\* skipped.
C25_SemanticIsCandidatePrefix ==
    (Searched /\ path = "semantic") =>
        /\ Len(recommendations) = Min(n_results, Len(CandidateItems))
        /\ \A i \in 1..Len(recommendations) :
              i <= Len(CandidateItems) =>
                  ItemOfResult(recommendations[i]) =
                      [mahalle    |-> CandidateItems[i].metadata["mahalle"],
                       ilce       |-> CandidateItems[i].metadata["ilce"],
                       similarity |-> 100 - CandidateItems[i].distance,
                       metadata   |-> CandidateItems[i].metadata]

\* the same statement for the requests in which neither the n = 0 case nor
\* a mixed district/name pair occurs
SemanticExactWhenWellFormed ==
    (/\ Searched /\ path = "semantic" /\ n_results > 0
     /\ \A i \in 1..Len(recommendations) : IsCandidatePair(recommendations[i], filtered_df))
    => /\ Len(recommendations) = Min(n_results, Len(CandidateItems))
       /\ \A i \in 1..Len(recommendations) :
             i <= Len(CandidateItems) =>
                 ItemOfResult(recommendations[i]) =
                     [mahalle    |-> CandidateItems[i].metadata["mahalle"],
                      ilce       |-> CandidateItems[i].metadata["ilce"],
                      similarity |-> 100 - CandidateItems[i].distance,
                      metadata   |-> CandidateItems[i].metadata]

\* every item of the response carries the metadata the walk reads
WellFormedResponse ==
    \A i \in 1..Len(response.items) : "mahalle" \in DOMAIN response.items[i].metadata

\* the candidate row has an item in the oversampled response
InOversample(row) ==
    \E i \in 1..Len(response.items) :
        /\ response.items[i].metadata["mahalle"] = row.Mahalle
        /\ response.items[i].metadata["ilce"] = row.Ilce

\* C26: when the catalog has at most 50 records and the index was built by
\* create_vector_db from the same source table, the oversample of
\* min(50, catalog size) items contains every candidate, so the semantic path
\* returns exactly min(n, candidate count) results.
C26_OversampleHoldsEveryCandidate ==
    (/\ Searched /\ path = "semantic"
     /\ Len(df) <= OversampleCap
     /\ Len(collection) > 0
     /\ WellFormedResponse)
    => /\ \A j \in 1..Len(filtered_df) : InOversample(filtered_df[j])
       /\ Len(recommendations) = Min(n_results, Len(filtered_df))


\* the fields main.py filters on and main_v4.py does not
MainOnlyFields ==
    {"min_total_stations", "max_casualties", "max_severely_damaged", "max_heavily_damaged"}

\* C28: for every catalog and every preference record whose min_total_stations,
\* max_casualties, max_severely_damaged and max_heavily_damaged are null, the
\* filter of main_v4.py and the filter of main.py give the same candidate set
\* and the same trace (or both raise), and the request's own filter result is
\* that common value.
C28_V4FilterAgreesWithMain ==
    (Explained /\ \A f \in MainOnlyFields : preferences[f] = Null)
    => /\ filter_by_constraints_v4(df, preferences) = filter_by_constraints(df, preferences)
       /\ path # "raised" =>
             /\ filtered_df = filter_by_constraints(df, preferences).rows
             /\ filters_applied = filter_by_constraints(df, preferences).trace

C28_Witness ==
    /\ op = "recommend" /\ path # "raised"
    /\ \A f \in MainOnlyFields : preferences[f] = Null
    /\ preferences["max_population"] # Null
    /\ Len(filters_applied) = 2
    /\ Len(filtered_df) > 0 /\ Len(filtered_df) < Len(df)


\* the earthquake maxima filter_by_constraints reads
AppliedMaxima == {"max_casualties", "max_severely_damaged", "max_heavily_damaged"}

\* the record with its missing simulation value replaced by a number
WithValue(row, m) == [row EXCEPT ![EarthquakeColumn(m)] = 0]

\* the record is a candidate of the request
IsCandidate(row) == \E j \in 1..Len(filtered_df) : filtered_df[j] = row

\* C30: when an earthquake maximum is non-null, no candidate has a missing
\* value in the corresponding simulation column; when the maximum is null, a
\* record with a missing value in that column is a candidate exactly when the
\* same record with a value in its place would be one.
C30_MissingSimulationValue ==
    Searched =>
        \A m \in AppliedMaxima :
            \A i \in 1..Len(df) :
                df[i][EarthquakeColumn(m)] = Null =>
                    IF preferences[m] # Null
                    THEN ~IsCandidate(df[i])
                    ELSE IsCandidate(df[i])
                         <=> filter_by_constraints(<<WithValue(df[i], m)>>, preferences).rows # <<>>

C30_Witness ==
    /\ Searched
    /\ preferences["max_heavily_damaged"] # Null
    /\ preferences["max_severely_damaged"] = Null
    /\ \E i \in 1..Len(df) :
          df[i].agir_hasarli_bina_sayisi = Null /\ ~IsCandidate(df[i])
    /\ \E i \in 1..Len(df) :
          df[i].cok_agir_hasarli_bina_sayisi = Null /\ IsCandidate(df[i])


\* C29: for every sequence of source rows, the document ids create_vector_db
\* assigns are pairwise distinct, a suffixed id included.
C29_DocumentIdsDistinct ==
    op = "built" =>
        \A i, j \in 1..Len(collection) : i # j => collection[i].id # collection[j].id


\* a frame without the working column of the budget block
WithoutRent(rows) ==
    [i \in 1..Len(rows) |->
        [k \in DOMAIN rows[i] \ {"estimated_rent"} |-> rows[i][k]]]

\* what the thread holds is what its request gives when run alone on the
\* catalog: the candidates and trace once filtered, the results once ranked,
\* the reasons once explained
AsAlone(local) ==
    /\ (local.pc \in {"search", "explain"} \/ (local.pc = "done" /\ local.result.path # "raised"))
          => /\ WithoutRent(FrameRows(local)) = filter_by_constraints(df, local.prefs).rows
             /\ local.trace = filter_by_constraints(df, local.prefs).trace
    /\ local.pc \in {"explain", "done"}
          => local.result = search_with_constraints(df, local.prefs, local.n, local.resp)
    /\ local.pc = "done"
          => local.reasons =
                [i \in 1..Len(local.result.recommendations) |->
                    explain_match(local.result.recommendations[i], local.prefs)]

\* C23: for any number of requests running concurrently against one agent
\* and any interleaving of their filter, search, fallback and explain steps,
\* the catalog is never modified and each request returns what it returns
\* when run alone on the same inputs and index responses.
C23_ConcurrentRequestsIsolated ==
    /\ [](\A t \in Threads : AsAlone(threads[t]))
    /\ [][df' = df]_vars

C23_Witness ==
    /\ threads["t1"].pc = "done"
    /\ threads["t1"].prefs["monthly_budget"] # Null
    /\ threads["t1"].prefs["apartment_size_sqm"] = Null
    /\ Len(threads["t1"].result.recommendations) = 2
    /\ threads["t2"].pc = "filter"
    /\ threads["t2"].column
    /\ threads["t2"].prefs["apartment_size_sqm"] # Null
    /\ Head(threads["t2"].steps) = "monthly_budget"

====
